---- MODULE Spec2Model ----
(***************************************************************************)
(* Event forwarder of src/index.js: POST /event { uuid } admits an event   *)
(* once (seen / seen.json), fetches the Encounter, its Patient and eleven  *)
(* related-resource bundles from the FHIR proxy and PUTs every record to   *)
(* the FHIR node through retryRequest.                                     *)
(*                                                                         *)
(* JavaScript runs a handler to completion between two awaits, so one      *)
(* action of the model is one such run: from the arrival of the request,   *)
(* or from the settling of the awaited promise (GET, PUT, timer), up to    *)
(* the next await or to the response.  fs.writeFile runs beside them.      *)
(***************************************************************************)
EXTENDS Naturals, Sequences, FiniteSets

\* ---- bounds of the model ------------------------------------------------
NumRequests == 2     \* POST /event requests that arrive
MaxFaults   == 3     \* GET, PUT and fs.writeFile calls the environment lets fail, in total
MaxRecords  == 2     \* entries the proxy returns in bundles, in total
MaxStored   == 2     \* length of the array found in seen.json at startup
ConcFaults  == 1     \* as MaxFaults, when requests run concurrently
ConcRecords == 0     \* as MaxRecords, when requests run concurrently
LiveFaults  == 1     \* GETs and writes that may fail when every PUT may fail
LiveRecords == 1     \* as MaxRecords, when every PUT may fail

\* ---- program constants --------------------------------------------------
MAX_RETRIES == 3
BaseWait    == 500

Undefined == "(undefined)"          \* req.body without uuid
Ids       == {"a", "b"}             \* event ids the feed sends
Uuids     == Ids \cup {Undefined, ""}
Errors    == {"E1", "E2"}           \* err.message of a failed axios call
NoErr     == "(null)"
Requests  == 1..NumRequests

\* encounter.subject?.reference: undefined, or a string (sequence of chars)
NoRef      == <<"(undefined)">>
Unset      == <<"(unset)">>          \* a local not assigned yet
References == {NoRef, <<"P", "/", "p">>, <<"P", "/">>, <<"p">>}

\* resourceQueries, in list order
resourceQueries ==
  << "Observation", "Condition", "Procedure", "MedicationRequest",
     "Medication", "AllergyIntolerance", "DiagnosticReport", "Immunization",
     "CarePlan", "Appointment", "DocumentReference" >>

Range(s) == {s[k] : k \in 1..Len(s)}

\* ---- the SeenSet (a JS Set keeps insertion order) ------------------------
\* seen.has(uuid) broken: nothing is ever found
HasNever(s, u) == FALSE

\* seen.has(uuid)
Has(s, u) == u \in Range(s)

\* seen.add(uuid) broken: the mark is lost
AddNothing(s, u) == s

\* seen.add(uuid)
Add(s, u) == IF Has(s, u) THEN s ELSE Append(s, u)

\* new Set(array): the distinct elements, in order of first occurrence
RECURSIVE NewSet(_)
NewSet(arr) ==
  IF arr = <<>> THEN <<>>
  ELSE Add(NewSet(SubSeq(arr, 1, Len(arr) - 1)), arr[Len(arr)])

\* ---- seen.json, byte by byte ------------------------------------------------
Quote == "\""
Nul   == "NUL"                      \* the byte 0 a hole in a file reads as

\* the elements of an array as JSON text: "a","b"
RECURSIVE Items(_)
Items(s) ==
  IF s = <<>> THEN <<>>
  ELSE IF Len(s) = 1 THEN <<Quote, s[1], Quote>>
  ELSE <<Quote, s[1], Quote, ",">> \o Items(Tail(s))

\* JSON.stringify([...seen]): the data written to seen.json, one element a byte
Stringify(s) == <<"[">> \o Items(s) \o <<"]">>

\* JSON.parse(data) for data made of brackets, commas and strings: the array, or
\* a SyntaxError; st is what the parser expects next, cur the string being read
RECURSIVE ParseAt(_, _, _, _, _)
ParseAt(data, i, st, cur, acc) ==
  IF i > Len(data) THEN [ok |-> st = "end", ids |-> acc]
  ELSE LET c == data[i]
           Fail == [ok |-> FALSE, ids |-> <<>>]
       IN CASE st = "start" ->
                 IF c = "[" THEN ParseAt(data, i + 1, "first", "", acc) ELSE Fail
            [] st = "first" ->
                 IF c = "]" THEN ParseAt(data, i + 1, "end", "", acc)
                 ELSE IF c = Quote THEN ParseAt(data, i + 1, "string", "", acc)
                 ELSE Fail
            [] st = "item" ->
                 IF c = Quote THEN ParseAt(data, i + 1, "string", "", acc) ELSE Fail
            [] st = "string" ->
                 IF c = Quote THEN ParseAt(data, i + 1, "after", "", Append(acc, cur))
                 ELSE IF c = Nul THEN Fail
                 ELSE ParseAt(data, i + 1, "string", cur \o c, acc)
            [] st = "after" ->
                 IF c = "," THEN ParseAt(data, i + 1, "item", "", acc)
                 ELSE IF c = "]" THEN ParseAt(data, i + 1, "end", "", acc)
                 ELSE Fail
            [] OTHER -> Fail

Parse(data) == ParseAt(data, 1, "start", "", <<>>)

\* a file holding the given bytes
File(data) == [exists |-> TRUE, bytes |-> data]

MissingFile == [exists |-> FALSE, bytes |-> <<>>]
EmptyFile   == File(<<>>)                          \* no bytes: JSON.parse throws
CorruptFile == File(<<"[", Quote, "a">>)           \* a snapshot cut short

\* startup failing closed: without a readable seen.json every id counts as seen
LoadSeenFailsClosed(f) ==
  IF f.exists /\ Parse(f.bytes).ok THEN NewSet(Parse(f.bytes).ids) ELSE <<"a", "b">>

\* startup broken: seen.json is never read
LoadNothing(f) == <<>>

\* startup: existsSync / readFileSync / JSON.parse / new Set, inside try {} catch {}
LoadSeen(f) ==
  IF f.exists /\ Parse(f.bytes).ok THEN NewSet(Parse(f.bytes).ids) ELSE <<>>

\* ---- retryRequest --------------------------------------------------------
\* while (attempt <= maxRetries): one attempt too many
KeepTryingOneMore(attempt, maxRetries) == attempt <= maxRetries

\* while (attempt < maxRetries)
KeepTrying(attempt, maxRetries) == attempt < maxRetries

\* const wait = 500 * attempt
WaitFor(attempt) == BaseWait * attempt

\* ---- the patient step ----------------------------------------------------
\* reference.split('/').pop(): what follows the last '/'
RECURSIVE LastSegment(_)
LastSegment(ref) ==
  IF ref = <<>> THEN <<>>
  ELSE IF ref[Len(ref)] = "/" THEN <<>>
  ELSE Append(LastSegment(SubSeq(ref, 1, Len(ref) - 1)), ref[Len(ref)])

\* encounter.subject?.reference?.split('/').pop(): undefined without a reference
PatientId(ref) == IF ref = NoRef THEN NoRef ELSE LastSegment(ref)

\* if (patientId !== undefined): the empty string passes
TruthyUnlessUndefined(pid) == pid # NoRef

\* if (patientId): undefined and the empty string are falsy
Truthy(pid) == pid # NoRef /\ pid # <<>>

\* no check of resourceType and id: every entry is delivered
DeliverableAlways(entry) == TRUE

\* entry.resource?.resourceType && entry.resource?.id
Deliverable(entry) == entry = "full"

Entries == {"full", "bare"}          \* an entry with type and id, or lacking one

RECURSIVE SkipBare(_)
SkipBare(es) ==
  IF es = <<>> THEN <<>>
  ELSE IF Deliverable(es[1]) THEN es
  ELSE SkipBare(Tail(es))

RECURSIVE CountFull(_)
CountFull(es) ==
  IF es = <<>> THEN 0
  ELSE (IF es[1] = "full" THEN 1 ELSE 0) + CountFull(Tail(es))

\* sequences over S of length at most n
SeqsUpTo(S, n) == UNION {[1..k -> S] : k \in 0..n}

\* bundle.entry arrays the proxy returns
Bundles == SeqsUpTo(Entries, MaxRecords)

\* what ./seen.json holds when the process starts
StartFiles ==
  {MissingFile, EmptyFile, CorruptFile}
    \cup {File(Stringify(s)) : s \in SeqsUpTo(Ids, MaxStored)}

\* ---- state -----------------------------------------------------------------
VARIABLES
  seen,        \* let seen: the SeenSet, in insertion order
  file,        \* content of ./seen.json
  stored,      \* content of ./seen.json when the process started
  writes,      \* fs.writeFile calls whose callback has not run yet
  writeFailed, \* some fs.writeFile callback ran with err
  h,           \* h[i]: the i-th POST /event handler (locals, position, response)
  faults,      \* GET/PUT failures the environment may still produce
  records,     \* bundle entries the proxy may still return
  saves,       \* calls of saveSeen so far
  feed,        \* the uuids the feed watcher may post
  flaky        \* the FHIR node may fail any PUT, beyond the faults counted

vars == <<seen, file, stored, writes, writeFailed, h, faults, records, saves, feed,
          flaky>>

\* a handler before its request arrives
Fresh ==
  [ pc       |-> "idle",       \* idle, getRoot, getSubject, getBundle, put, sleep, done
    uuid     |-> Undefined,    \* req.body.uuid
    stage    |-> "none",       \* which putToNode call is running: root, subject, related
    subject  |-> Unset,        \* encounter.subject?.reference, until patientId is taken
    patientId |-> Unset,       \* const patientId
    typeIdx  |-> 0,            \* position of the for loop over resourceQueries
    entries  |-> <<>>,         \* entries of bundle.entry not yet visited
    attempt  |-> 0,            \* retryRequest: attempt
    lastErr  |-> NoErr,        \* retryRequest: lastErr
    results  |-> 0,            \* results.length
    status   |-> 0,            \* HTTP status of the response, 0 before it
    body     |-> "none",       \* ok, duplicado, error
    sent     |-> 0,            \* sent of the ok response
    error    |-> NoErr,        \* error of the 400/500 response
    responses |-> 0,           \* calls of res.json
    gets     |-> <<>>,         \* GETs issued: resource and id / encounter= key
    failed   |-> {},           \* resources whose GET failed
    offered  |-> 0,            \* deliverable entries received in bundles
    bundle   |-> <<>>,         \* bundle.entry of the resource type being processed
    abandoned |-> 0,           \* deliverable entries pending when putToNode threw
    answered |-> 0,            \* axios.get / axios.put calls that have settled
    nPut     |-> 0,            \* axios.put calls issued
    nOk      |-> 0,            \* axios.put calls that succeeded
    exhausted |-> 0,           \* retryRequest calls that threw
    xCalls   |-> 0,            \* current retryRequest: invocations of fn
    xErrs    |-> <<>>,         \* current retryRequest: error of each failed attempt
    xWaits   |-> <<>>,         \* current retryRequest: setTimeout delays
    xOutcome |-> "none",       \* current retryRequest: running, returned, thrown
    xThrown  |-> NoErr ]       \* current retryRequest: the error thrown

\* ---- one handler, from one await to the next --------------------------------
\* results kept at module level: an ok response also counts the PUTs of the others
RespondSharedResults(r, code, body, sent, err) ==
  LET others[k \in 0..NumRequests] ==
        IF k = 0 THEN 0
        ELSE others[k - 1] + (IF h[k].uuid # r.uuid THEN h[k].results ELSE 0)
  IN [r EXCEPT !.pc = "done", !.status = code, !.body = body,
               !.sent = IF body = "ok" THEN sent + others[NumRequests] ELSE sent,
               !.error = err, !.responses = @ + 1]

\* res.status(code).json(...)
Respond(r, code, body, sent, err) ==
  [r EXCEPT !.pc = "done", !.status = code, !.body = body, !.sent = sent,
            !.error = err, !.responses = @ + 1]

\* await getFromProxy(path)
IssueGet(r, pc, resource, key) ==
  [r EXCEPT !.pc = pc, !.gets = Append(@, [res |-> resource, key |-> key])]

\* the outer catch broken: the error is logged and the related resources follow
OuterCatchGoesOn(r, err) ==
  IssueGet([r EXCEPT !.typeIdx = 1, !.stage = "related"], "getBundle",
           resourceQueries[1], <<r.uuid>>)

\* the outer catch only logs: no response is ever sent
OuterCatchSilent(r, err) == [r EXCEPT !.pc = "hung"]

\* catch (err) { res.status(500).json({ error: err.message }) }
OuterCatch(r, err) == Respond(r, 500, "error", 0, err)

\* the related resources queried by patient, as the README draws the flow
NextTypeByPatient(r) ==
  IF r.typeIdx < Len(resourceQueries)
  THEN IssueGet([r EXCEPT !.typeIdx = @ + 1, !.bundle = <<>>, !.entries = <<>>],
                "getBundle", resourceQueries[r.typeIdx + 1], r.patientId)
  ELSE Respond([r EXCEPT !.bundle = <<>>, !.entries = <<>>], 200, "ok", r.results, NoErr)

\* the related resources fetched two at a time, without awaiting the first
NextTypeTwoAtOnce(r) ==
  IF r.typeIdx + 1 < Len(resourceQueries)
  THEN IssueGet(IssueGet([r EXCEPT !.typeIdx = @ + 2, !.bundle = <<>>, !.entries = <<>>],
                         "getBundle", resourceQueries[r.typeIdx + 1], <<r.uuid>>),
                "getBundle", resourceQueries[r.typeIdx + 2], <<r.uuid>>)
  ELSE IF r.typeIdx < Len(resourceQueries)
  THEN IssueGet([r EXCEPT !.typeIdx = @ + 1, !.bundle = <<>>, !.entries = <<>>],
                "getBundle", resourceQueries[r.typeIdx + 1], <<r.uuid>>)
  ELSE Respond([r EXCEPT !.bundle = <<>>, !.entries = <<>>], 200, "ok", r.results, NoErr)

\* the for loop over resourceQueries moves on; after the last type, the ok response
NextType(r) ==
  IF r.typeIdx < Len(resourceQueries)
  THEN IssueGet([r EXCEPT !.typeIdx = @ + 1, !.bundle = <<>>, !.entries = <<>>],
                "getBundle", resourceQueries[r.typeIdx + 1], <<r.uuid>>)
  ELSE Respond([r EXCEPT !.bundle = <<>>, !.entries = <<>>], 200, "ok", r.results, NoErr)

\* no try/catch around one resource type: the error reaches the outer catch
InnerCatchRethrows(r, err) == OuterCatch(r, err)

\* the try/catch inside the loop over bundle.entry: the next entry is delivered
InnerCatchPerRecord(r, err) ==
  IF SkipBare(r.entries) = <<>>
  THEN NextType(r)
  ELSE [r EXCEPT !.pc = "put", !.entries = Tail(SkipBare(r.entries)),
                 !.attempt = 0, !.lastErr = NoErr, !.nPut = @ + 1,
                 !.xCalls = 1, !.xErrs = <<>>, !.xWaits = <<>>,
                 !.xOutcome = "running", !.xThrown = NoErr]

\* catch (e) { logStep(...) } around one resource type
InnerCatch(r, err) == NextType(r)

\* every putToNode inside an isolating try/catch: no delivery failure is fatal
RaiseAlwaysIsolated(r, err) == InnerCatch(r, err)

\* an exception leaves putToNode / getFromProxy at the given stage
Raise(r, err) ==
  IF r.stage = "related" THEN InnerCatch(r, err) ELSE OuterCatch(r, err)

\* retryRequest: the head of the while loop, then fn() or throw lastErr
RetryLoop(r) ==
  IF KeepTrying(r.attempt, MAX_RETRIES)
  THEN [r EXCEPT !.pc = "put", !.nPut = @ + 1, !.xCalls = @ + 1]
  ELSE Raise([r EXCEPT !.xOutcome = "thrown", !.xThrown = r.lastErr,
                       !.exhausted = @ + 1,
                       !.abandoned = @ + CountFull(r.entries)], r.lastErr)

\* putToNode(resource): retryRequest starts with attempt = 0, lastErr = null
StartPut(r, stage) ==
  RetryLoop([r EXCEPT !.stage = stage, !.attempt = 0, !.lastErr = NoErr,
                      !.xCalls = 0, !.xErrs = <<>>, !.xWaits = <<>>,
                      !.xOutcome = "running", !.xThrown = NoErr])

\* for (const entry of bundle.entry): up to the next deliverable entry
DeliverEntries(r, es) ==
  IF SkipBare(es) = <<>>
  THEN NextType([r EXCEPT !.entries = <<>>])
  ELSE StartPut([r EXCEPT !.entries = Tail(SkipBare(es))], "related")

\* after results.push(await putToNode(...)) at each of the three places
AfterPut(r) ==
  IF r.stage = "root"
  THEN IF Truthy(PatientId(r.subject))
       THEN IssueGet([r EXCEPT !.patientId = PatientId(r.subject), !.subject = Unset],
                     "getSubject", "Patient", PatientId(r.subject))
       ELSE NextType([r EXCEPT !.patientId = PatientId(r.subject), !.subject = Unset,
                               !.stage = "related"])
  ELSE IF r.stage = "subject"
  THEN NextType([r EXCEPT !.stage = "related"])
  ELSE DeliverEntries(r, r.entries)

\* ---- saveSeen ----------------------------------------------------------------
\* saveSeen doing nothing
SaveSeenSkipped(ws, s) == ws

\* fs.writeFile(SEEN_FILE, JSON.stringify([...seen]), callback): the snapshot is
\* taken at the call; the open, the write and the callback follow, each in a later
\* turn
SaveSeen(ws, s) == ws \cup {[snap |-> Stringify(s), phase |-> "called", pos |-> 0]}

\* open(SEEN_FILE, 'w'): the file is created or truncated
Opened(content) == EmptyFile

\* the first pos bytes of a file; past its end a hole, which reads as zeros
Before(bytes, pos) ==
  IF pos <= Len(bytes) THEN SubSeq(bytes, 1, pos)
  ELSE bytes \o [i \in 1..(pos - Len(bytes)) |-> Nul]

\* fs.write(fd, data) at the position the descriptor has reached, over what the
\* file holds by then: the bytes of a longer content that follow the data stay
Wrote(content, pos, data) ==
  File(Before(content.bytes, pos) \o data
         \o SubSeq(content.bytes, pos + Len(data) + 1, Len(content.bytes)))

\* w moves on to the given phase, its descriptor at the given position
Phase(ws, w, ph, pos) == (ws \ {w}) \cup {[w EXCEPT !.phase = ph, !.pos = pos]}

\* the GET a handler is waiting for
LastGet(r) == r.gets[Len(r.gets)]

\* if (uuid === undefined): the empty string is let through
MissingOnlyUndefined(u) == u = Undefined

\* if (!uuid): no uuid in the body, or a falsy one
Missing(u) == u = Undefined \/ u = ""

\* ---- actions -----------------------------------------------------------------
\* app.post('/event'): up to the 400/duplicado response or the first await
Post(i, u) ==
  /\ h[i].pc = "idle"
  /\ u \in feed
  /\ \A j \in Requests : j < i => h[j].pc # "idle"
  /\ IF Missing(u)
     THEN /\ h' = [h EXCEPT ![i] = Respond([@ EXCEPT !.uuid = u], 400, "error", 0, "Falta uuid")]
          /\ UNCHANGED <<seen, writes, saves>>
     ELSE IF Has(seen, u)
     THEN /\ h' = [h EXCEPT ![i] = Respond([@ EXCEPT !.uuid = u], 200, "duplicado", 0, NoErr)]
          /\ UNCHANGED <<seen, writes, saves>>
     ELSE /\ seen' = Add(seen, u)
          /\ writes' = SaveSeen(writes, seen')
          /\ saves' = saves + 1
          /\ h' = [h EXCEPT ![i] = IssueGet([@ EXCEPT !.uuid = u], "getRoot", "Encounter", <<u>>)]
  /\ UNCHANGED <<file, stored, writeFailed, faults, records, feed, flaky>>

\* axios.get rejects, and a fatal failure un-marks the event so that it can be resent
GetFailsForgets(i, e) ==
  /\ h[i].pc \in {"getRoot", "getSubject", "getBundle"}
  /\ faults > 0
  /\ faults' = faults - 1
  /\ h' = [h EXCEPT ![i] =
            IF @.pc = "getBundle"
            THEN InnerCatch([@ EXCEPT !.failed = @ \cup {LastGet(h[i]).res},
                                      !.answered = @ + 1], e)
            ELSE OuterCatch([@ EXCEPT !.failed = @ \cup {LastGet(h[i]).res},
                                      !.answered = @ + 1], e)]
  /\ seen' = IF h[i].pc = "getBundle" THEN seen
             ELSE SelectSeq(seen, LAMBDA x : x # h[i].uuid)
  /\ UNCHANGED <<file, stored, writes, writeFailed, records, saves, feed, flaky>>

\* axios.get rejects: fatal for Encounter and Patient, skipped for a bundle
GetFails(i, e) ==
  /\ h[i].pc \in {"getRoot", "getSubject", "getBundle"}
  /\ faults > 0
  /\ faults' = faults - 1
  /\ h' = [h EXCEPT ![i] =
            IF @.pc = "getBundle"
            THEN InnerCatch([@ EXCEPT !.failed = @ \cup {LastGet(h[i]).res},
                                      !.answered = @ + 1], e)
            ELSE OuterCatch([@ EXCEPT !.failed = @ \cup {LastGet(h[i]).res},
                                      !.answered = @ + 1], e)]
  /\ UNCHANGED <<seen, file, stored, writes, writeFailed, records, saves, feed, flaky>>

\* GET /Encounter/{uuid} resolves: putToNode(encounter)
EncounterReturns(i, ref) ==
  /\ h[i].pc = "getRoot"
  /\ h' = [h EXCEPT ![i] = StartPut([@ EXCEPT !.subject = ref, !.answered = @ + 1], "root")]
  /\ UNCHANGED <<seen, file, stored, writes, writeFailed, faults, records, saves, feed, flaky>>

\* GET /Patient/{patientId} resolves: putToNode(patient)
PatientReturns(i) ==
  /\ h[i].pc = "getSubject"
  /\ h' = [h EXCEPT ![i] = StartPut([@ EXCEPT !.answered = @ + 1], "subject")]
  /\ UNCHANGED <<seen, file, stored, writes, writeFailed, faults, records, saves, feed, flaky>>

\* GET /{type}?encounter={uuid} resolves without bundle.entry
BundleEmpty(i) ==
  /\ h[i].pc = "getBundle"
  /\ h' = [h EXCEPT ![i] = NextType([@ EXCEPT !.answered = @ + 1])]
  /\ UNCHANGED <<seen, file, stored, writes, writeFailed, faults, records, saves, feed, flaky>>

\* GET /{type}?encounter={uuid} resolves with bundle.entry = es
BundleReturns(i, es) ==
  /\ h[i].pc = "getBundle"
  /\ Len(es) <= records
  /\ records' = records - Len(es)
  /\ h' = [h EXCEPT ![i] =
            DeliverEntries([@ EXCEPT !.offered = @ + CountFull(es), !.bundle = es,
                                     !.answered = @ + 1], es)]
  /\ UNCHANGED <<seen, file, stored, writes, writeFailed, faults, saves, feed, flaky>>

\* axios.put resolves: retryRequest returns, results.push
PutOk(i) ==
  /\ h[i].pc = "put"
  /\ h' = [h EXCEPT ![i] = AfterPut([@ EXCEPT !.results = @ + 1, !.nOk = @ + 1,
                                                !.answered = @ + 1,
                                                !.xOutcome = "returned"])]
  /\ UNCHANGED <<seen, file, stored, writes, writeFailed, faults, records, saves, feed, flaky>>

\* axios.put rejects: catch (err) in retryRequest, up to the setTimeout
PutFails(i, e) ==
  /\ h[i].pc = "put"
  /\ flaky \/ faults > 0
  /\ faults' = IF flaky THEN faults ELSE faults - 1
  /\ h' = [h EXCEPT ![i] =
            [@ EXCEPT !.pc = "sleep", !.lastErr = e, !.attempt = @ + 1,
                      !.answered = @ + 1,
                      !.xErrs = Append(@, e),
                      !.xWaits = Append(@, WaitFor(h[i].attempt + 1))]]
  /\ UNCHANGED <<seen, file, stored, writes, writeFailed, records, saves, feed, flaky>>

\* the setTimeout of retryRequest fires: back to the head of the while loop
TimerFires(i) ==
  /\ h[i].pc = "sleep"
  /\ h' = [h EXCEPT ![i] = RetryLoop(@)]
  /\ UNCHANGED <<seen, file, stored, writes, writeFailed, faults, records, saves, feed, flaky>>

\* the open of an fs.writeFile runs in the thread pool: seen.json is truncated
WriteOpens(w) ==
  /\ w \in writes
  /\ w.phase = "called"
  /\ file' = Opened(file)
  /\ writes' = Phase(writes, w, "opened", 0)
  /\ UNCHANGED <<seen, stored, writeFailed, h, faults, records, saves, feed, flaky>>

\* an fs.write of an fs.writeFile writes all the bytes still to write: the rest
\* of the snapshot reaches the file, over whatever the other writes left there
WriteWrites(w) ==
  /\ w \in writes
  /\ w.phase = "opened"
  /\ file' = Wrote(file, w.pos, SubSeq(w.snap, w.pos + 1, Len(w.snap)))
  /\ writes' = Phase(writes, w, "written", Len(w.snap))
  /\ UNCHANGED <<seen, stored, writeFailed, h, faults, records, saves, feed, flaky>>

\* an fs.write of an fs.writeFile writes only the k bytes that fit (file size
\* limit, disk full): they reach the file, and writeAll will call fs.write again
\* for the rest
WritePartial(w, k) ==
  /\ w \in writes
  /\ w.phase = "opened"
  /\ k \in 1..(Len(w.snap) - w.pos - 1)
  /\ faults > 0
  /\ faults' = faults - 1
  /\ file' = Wrote(file, w.pos, SubSeq(w.snap, w.pos + 1, w.pos + k))
  /\ writes' = Phase(writes, w, "opened", w.pos + k)
  /\ UNCHANGED <<seen, stored, writeFailed, h, records, saves, feed, flaky>>

\* the callback of an fs.writeFile runs with err = null: nothing to do
WriteDone(w) ==
  /\ w \in writes
  /\ w.phase = "written"
  /\ writes' = writes \ {w}
  /\ UNCHANGED <<seen, file, stored, writeFailed, h, faults, records, saves, feed, flaky>>

\* the callback of a failed fs.writeFile takes the last admission back
WriteFailsRollsBack(w) ==
  /\ w \in writes
  /\ w.phase \in {"called", "opened"}
  /\ w.pos > 0 \/ faults > 0
  /\ faults' = IF w.pos > 0 THEN faults ELSE faults - 1
  /\ writes' = writes \ {w}
  /\ writeFailed' = TRUE
  /\ seen' = SubSeq(seen, 1, Len(seen) - 1)
  /\ UNCHANGED <<file, stored, h, records, saves, feed, flaky>>

\* the open or an fs.write of an fs.writeFile failed and the callback logs err:
\* the file is as the calls before left it, untouched, truncated or written in
\* part; the failure after a short write has the cause the short write had
WriteFails(w) ==
  /\ w \in writes
  /\ w.phase \in {"called", "opened"}
  /\ w.pos > 0 \/ faults > 0
  /\ faults' = IF w.pos > 0 THEN faults ELSE faults - 1
  /\ writes' = writes \ {w}
  /\ writeFailed' = TRUE
  /\ UNCHANGED <<seen, file, stored, h, records, saves, feed, flaky>>

Next ==
  \/ \E i \in Requests, u \in Uuids : Post(i, u)
  \/ \E i \in Requests, e \in Errors : GetFails(i, e)
  \/ \E i \in Requests, ref \in References : EncounterReturns(i, ref)
  \/ \E i \in Requests : PatientReturns(i)
  \/ \E i \in Requests : BundleEmpty(i)
  \/ \E i \in Requests, es \in Bundles : BundleReturns(i, es)
  \/ \E i \in Requests : PutOk(i)
  \/ \E i \in Requests, e \in Errors : PutFails(i, e)
  \/ \E i \in Requests : TimerFires(i)
  \/ \E w \in writes : WriteOpens(w)
  \/ \E w \in writes : WriteWrites(w)
  \/ \E w \in writes : \E k \in 1..(Len(w.snap) - 1) : WritePartial(w, k)
  \/ \E w \in writes : WriteDone(w)
  \/ \E w \in writes : WriteFails(w)

\* the process starts: seen is loaded from what seen.json holds; n requests
\* with a uuid of us will arrive, the environment fails f calls (GETs and writes
\* only, and any PUT, when fl) and returns k bundle entries
StartWith(files, us, n, f, k, fl) ==
  /\ file \in files
  /\ stored = file
  /\ seen = LoadSeen(file)
  /\ writes = {}
  /\ writeFailed = FALSE
  /\ h = [i \in Requests |-> IF i <= n THEN Fresh ELSE [Fresh EXCEPT !.pc = "off"]]
  /\ faults = f
  /\ records = k
  /\ saves = 0
  /\ feed = us
  /\ flaky = fl

Start(files, us, n, f, k) == StartWith(files, us, n, f, k, FALSE)

\* concurrent requests after a first start (no seen.json yet)
Init == Start({MissingFile}, Uuids, NumRequests, ConcFaults, ConcRecords)

Spec == Init /\ [][Next]_vars

\* one event through the whole pipeline, with failures and bundle entries
InitPipeline == Start({MissingFile}, {"a"}, 1, MaxFaults, MaxRecords)

SpecPipeline == InitPipeline /\ [][Next]_vars

\* one request after a start from any content of seen.json
InitStartup == Start(StartFiles, Uuids, 1, ConcFaults, ConcRecords)

SpecStartup == InitStartup /\ [][Next]_vars

\* the steps of handler i once its request has arrived: a GET or a PUT settles,
\* a timer fires
Settles(i) ==
  \/ \E e \in Errors : GetFails(i, e)
  \/ \E ref \in References : EncounterReturns(i, ref)
  \/ PatientReturns(i)
  \/ BundleEmpty(i)
  \/ \E es \in Bundles : BundleReturns(i, es)
  \/ PutOk(i)
  \/ \E e \in Errors : PutFails(i, e)
  \/ TimerFires(i)

\* one event against a FHIR node that may fail every PUT; every axios call
\* settles and every timer fires
InitLive == StartWith({MissingFile}, {"a"}, 1, LiveFaults, LiveRecords, TRUE)

SpecLive == InitLive /\ [][Next]_vars /\ \A i \in Requests : WF_vars(Settles(i))

\* ---- properties ----------------------------------------------------------------
Arrived(i)  == h[i].pc \notin {"idle", "off"}
Admitted(i) == Arrived(i) /\ h[i].gets # <<>>
Duplicate(i) ==
  /\ h[i].pc = "done" /\ h[i].status = 200 /\ h[i].body = "duplicado"
  /\ h[i].gets = <<>> /\ h[i].nPut = 0
Loaded == Range(LoadSeen(stored))
Fetched(i) == {h[i].gets[k].res : k \in 1..Len(h[i].gets)}

\* C1 Idempotent admission: the first POST /event with an id that seen.json did not
\* hold is admitted (its Encounter GET is issued); every later POST with the same id
\* gets the duplicado response, issues no GET and no PUT, and saveSeen is called
\* once per admitted event only.
IdempotentAdmission ==
  /\ \A j \in Requests : (Arrived(j) /\ h[j].uuid \in Ids) =>
       IF \E i \in Requests : i < j /\ h[i].uuid = h[j].uuid
       THEN Duplicate(j)
       ELSE h[j].uuid \notin Loaded =>
              /\ Admitted(j)
              /\ h[j].gets[1] = [res |-> "Encounter", key |-> <<h[j].uuid>>]
  /\ saves = Cardinality({j \in Requests : Admitted(j)})

\* C1 witness: the first event went on to deliver its Encounter, the second POST
\* with the same id was answered duplicado
IdempotentAdmissionWitness ==
  /\ h[1].uuid \in Ids /\ h[2].uuid = h[1].uuid
  /\ h[1].nOk >= 1
  /\ Duplicate(2)

\* C2 Concurrent admission: of the handlers that received the same id, exactly
\* one is past admission, whatever the others' position; an admitted handler's id
\* is in seen in every state, so no handler ever runs between the check and the mark.
ExactlyOneAdmitted ==
  \A u \in Ids :
    LET arrived  == {i \in Requests : Arrived(i) /\ h[i].uuid = u}
        admitted == {i \in arrived : Admitted(i)}
    IN /\ Cardinality(admitted) <= 1
       /\ (arrived # {} /\ u \notin Loaded) => Cardinality(admitted) = 1
       /\ \A i \in arrived \ admitted : Duplicate(i)
       /\ \A i \in admitted : Has(seen, u)

\* C2 witness: the second POST arrives while the first handler of the same id is
\* still waiting for a GET or a PUT
ExactlyOneAdmittedWitness ==
  /\ h[1].uuid \in Ids /\ h[2].uuid = h[1].uuid
  /\ h[1].pc \in {"getRoot", "put", "sleep", "getSubject", "getBundle"}
  /\ Duplicate(2)

\* C3 Retry attempt bound: retryRequest never invokes the operation more than
\* MAX_RETRIES times; when it returns after k failures it has invoked it k+1 times
\* with k < MAX_RETRIES; when it throws it has invoked it exactly MAX_RETRIES times
\* and throws the error of the last attempt, which the 500 response then carries.
RetryAttemptBound ==
  \A i \in Requests :
    /\ h[i].xCalls <= MAX_RETRIES
    /\ h[i].xOutcome = "returned" =>
         /\ Len(h[i].xErrs) < MAX_RETRIES
         /\ h[i].xCalls = Len(h[i].xErrs) + 1
    /\ h[i].xOutcome = "thrown" =>
         /\ h[i].xCalls = MAX_RETRIES
         /\ Len(h[i].xErrs) = MAX_RETRIES
         /\ h[i].xThrown = h[i].xErrs[MAX_RETRIES]
         /\ (h[i].status = 500 => h[i].error = h[i].xErrs[MAX_RETRIES])

\* C3 witness: a delivery was given up after failing with different errors, the
\* last one differing from the first
RetryAttemptBoundWitness ==
  \E i \in Requests :
    /\ h[i].xOutcome = "thrown"
    /\ h[i].xErrs[1] # h[i].xErrs[MAX_RETRIES]
    /\ h[i].status = 500

\* C4 Retry backoff schedule, as claimed: an operation that always fails is
\* attempted MAX_RETRIES times with waits base, 2*base, ..., (MAX_RETRIES-1)*base,
\* MAX_RETRIES-1 waits in all, none after the last failed attempt.
BackoffSchedule ==
  \A i \in Requests :
    /\ Len(h[i].xWaits) <= MAX_RETRIES - 1
    /\ h[i].xOutcome = "thrown" =>
         h[i].xWaits = [k \in 1..(MAX_RETRIES - 1) |-> BaseWait * k]

\* C5 Isolated related-resource fetch failure: an event whose only failure is the
\* GET of one related-resource type ends with the ok response, has fetched every
\* type of resourceQueries, and its count is the number of successful PUTs:
\* the Encounter, the Patient if any, and every deliverable entry received.
IsolatedFetchFailure ==
  \A i \in Requests :
    (/\ h[i].pc = "done"
     /\ Cardinality(h[i].failed) = 1
     /\ h[i].failed \subseteq Range(resourceQueries)
     /\ h[i].exhausted = 0) =>
       /\ h[i].status = 200 /\ h[i].body = "ok"
       /\ Range(resourceQueries) \subseteq Fetched(i)
       /\ h[i].sent = h[i].nOk
       /\ h[i].sent = 1 + (IF "Patient" \in Fetched(i) THEN 1 ELSE 0) + h[i].offered

\* C5 witness: the Condition GET failed, Encounter, Patient and two entries of
\* other types were delivered
IsolatedFetchFailureWitness ==
  \E i \in Requests :
    /\ h[i].pc = "done" /\ h[i].failed = {"Condition"} /\ h[i].exhausted = 0
    /\ h[i].status = 200 /\ h[i].sent = 4

\* C6 Fatal root-fetch failure: when the Encounter GET fails the event is answered
\* 500 with the error, no PUT was issued and no GET other than the Encounter's.
FatalRootFetch ==
  \A i \in Requests :
    "Encounter" \in h[i].failed =>
      /\ h[i].pc = "done" /\ h[i].status = 500 /\ h[i].body = "error"
      /\ h[i].error \in Errors
      /\ h[i].nPut = 0 /\ h[i].nOk = 0
      /\ Len(h[i].gets) = 1

\* C6 witness: an event whose Encounter GET failed
FatalRootFetchWitness ==
  \E i \in Requests : "Encounter" \in h[i].failed /\ h[i].status = 500

\* C7 Deduplication invariant: no step removes an id from seen; an event answered
\* 500 stays in seen, and a later POST with its id gets the duplicado response.
SeenNeverForgets ==
  [][ /\ \A u \in Range(seen) : Has(seen', u)
      /\ \A i \in Requests : h'[i].status = 500 => Has(seen', h'[i].uuid)
      /\ \A i, j \in Requests :
           (i < j /\ h'[i].status = 500 /\ h'[j].status # 0 /\ h'[j].uuid = h'[i].uuid)
             => (h'[j].body = "duplicado" /\ h'[j].gets = <<>>) ]_vars

\* C7 witness: an event aborted with 500 and the same id sent again was a duplicate
SeenNeverForgetsWitness ==
  /\ h[1].status = 500 /\ h[2].uuid = h[1].uuid /\ Duplicate(2)
  /\ Has(seen, h[1].uuid)

\* C8 Subject optionality: when the Encounter carries no subject reference, or the
\* id taken from it is empty, no Patient GET and no Patient PUT is issued, the event
\* goes on to the related resources and ends ok, and its count is the Encounter plus
\* the delivered bundle entries.
SubjectOptional ==
  \A i \in Requests :
    h[i].patientId \in {NoRef, <<>>} =>
      /\ "Patient" \notin Fetched(i)
      /\ h[i].stage = "related"
      /\ "Observation" \in Fetched(i)
      /\ h[i].nOk <= 1 + h[i].offered
      /\ h[i].pc = "done" =>
           /\ h[i].status = 200 /\ h[i].body = "ok"
           /\ h[i].sent = h[i].nOk
           /\ h[i].exhausted = 0 => h[i].sent = 1 + h[i].offered

\* C8 witness: an event without subject reference ended ok having delivered the
\* Encounter and two bundle entries
SubjectOptionalWitness ==
  \E i \in Requests :
    /\ h[i].patientId = NoRef /\ h[i].pc = "done"
    /\ h[i].status = 200 /\ h[i].sent = 3

\* C9 Restart durability: an id held by seen.json when the process starts is in
\* seen from the start, and a POST with that id gets the duplicado response without
\* any GET.
RestartDurability ==
  \A u \in Ids, s \in SeqsUpTo(Ids, MaxStored) :
    (stored = File(Stringify(s)) /\ u \in Range(s)) =>
      /\ Has(seen, u)
      /\ \A i \in Requests : (Arrived(i) /\ h[i].uuid = u) => Duplicate(i)

\* C9 witness: seen.json held the id twice and the POST with it was a duplicate
RestartDurabilityWitness ==
  \E i \in Requests :
    /\ stored = File(Stringify(<<h[i].uuid, h[i].uuid>>))
    /\ Duplicate(i)

\* C10 Safe asynchronous persistence, as claimed: once every fs.writeFile started
\* by saveSeen has completed without error, seen.json holds the in-memory SeenSet;
\* no older snapshot is its final content.
SafePersistence ==
  (saves > 0 /\ writes = {} /\ ~writeFailed) => file = File(Stringify(seen))

\* ---- properties, continued ---------------------------------------------------
HasPatient(i) == IF "Patient" \in Fetched(i) THEN 1 ELSE 0
\* putToNode calls made so far, the running one included
Tried(i) == h[i].nOk + h[i].exhausted + (IF h[i].pc \in {"put", "sleep"} THEN 1 ELSE 0)
\* axios calls issued and not settled
Outstanding(i) == (Len(h[i].gets) + h[i].nPut) - h[i].answered
\* a failure met on the root or subject path
FatalFailure(i) ==
  \/ "Encounter" \in h[i].failed
  \/ "Patient" \in h[i].failed
  \/ (h[i].xOutcome = "thrown" /\ h[i].stage \in {"root", "subject"})

\* C11 Fatal root-delivery and subject failures: when the PUT of the Encounter or
\* of the Patient is given up after MAX_RETRIES attempts, or the Patient GET fails,
\* the event is answered 500 with the error and no related resource is fetched or
\* delivered.
FatalRootDeliveryAndSubject ==
  \A i \in Requests :
    ((h[i].xOutcome = "thrown" /\ h[i].stage \in {"root", "subject"})
       \/ "Patient" \in h[i].failed) =>
      /\ h[i].pc = "done" /\ h[i].status = 500 /\ h[i].body = "error"
      /\ h[i].error \in Errors
      /\ Fetched(i) \subseteq {"Encounter", "Patient"}
      /\ h[i].typeIdx = 0
      /\ h[i].nOk <= 1
      /\ (h[i].xOutcome = "thrown" /\ h[i].stage = "root") => h[i].nOk = 0

\* C11 witness: the Encounter was delivered, the PUT of the Patient was given up
FatalRootDeliveryAndSubjectWitness ==
  \E i \in Requests :
    /\ h[i].stage = "subject" /\ h[i].xOutcome = "thrown"
    /\ h[i].status = 500 /\ h[i].nOk = 1

\* C12 Per-type isolation of a record delivery failure: once the PUT of a bundle
\* entry has been given up, the entries that were still pending in that bundle are
\* never delivered, the event is not answered 500, and when it ends it is ok, every
\* type of resourceQueries was fetched and the count is the number of successful PUTs.
PerTypeIsolation ==
  \A i \in Requests :
    (h[i].stage = "related" /\ h[i].exhausted >= 1) =>
      /\ Tried(i) + h[i].abandoned <= 1 + HasPatient(i) + h[i].offered
      /\ h[i].status # 500
      /\ h[i].pc = "done" =>
           /\ h[i].status = 200 /\ h[i].body = "ok"
           /\ Range(resourceQueries) \subseteq Fetched(i)
           /\ h[i].sent = h[i].nOk
           /\ Tried(i) + h[i].abandoned = 1 + HasPatient(i) + h[i].offered

\* C12 witness: the first of two entries of a bundle was given up, the second was
\* never tried, the event ended ok
PerTypeIsolationWitness ==
  \E i \in Requests :
    /\ h[i].pc = "done" /\ h[i].status = 200 /\ h[i].stage = "related"
    /\ h[i].exhausted = 1 /\ h[i].abandoned = 1 /\ h[i].offered = 2
    /\ h[i].sent = 1 + HasPatient(i)

\* C13 Dependency ordering: the first GET is the Encounter's, by the event id; the
\* Patient GET comes second, after the Encounter was delivered, by the id taken from
\* the Encounter; every related-resource GET is keyed by the event id and comes after
\* the patient step: after the Patient was delivered, or without Patient GET when the
\* Encounter gave no patient id.
DependencyOrdering ==
  \A i \in Requests :
    Admitted(i) =>
      /\ h[i].gets[1] = [res |-> "Encounter", key |-> <<h[i].uuid>>]
      /\ \A k \in 2..Len(h[i].gets) :
           IF h[i].gets[k].res = "Patient"
           THEN /\ k = 2
                /\ h[i].nOk >= 1
                /\ h[i].patientId \notin {Unset, NoRef, <<>>}
                /\ h[i].gets[k].key = h[i].patientId
           ELSE /\ h[i].gets[k].res \in Range(resourceQueries)
                /\ h[i].gets[k].key = <<h[i].uuid>>
                /\ h[i].patientId # Unset
                /\ h[i].nOk >= 1
                /\ h[i].patientId \notin {NoRef, <<>>} =>
                     (k > 2 /\ h[i].gets[2].res = "Patient" /\ h[i].nOk >= 2)

\* C13 witness: Encounter, Patient, then the Observation query by the event id
DependencyOrderingWitness ==
  \E i \in Requests :
    /\ Len(h[i].gets) >= 3
    /\ h[i].gets[2] = [res |-> "Patient", key |-> <<"p">>]
    /\ h[i].gets[3] = [res |-> "Observation", key |-> <<h[i].uuid>>]

\* C14 Delivered count accuracy: results holds one status per successful PUT; the
\* sent of an ok response is that number, whatever the retries: the Encounter, the
\* Patient if fetched and every entry with type and id, less the entries given up
\* or left behind; entries without type or id are neither delivered nor counted.
DeliveredCount ==
  \A i \in Requests :
    /\ h[i].results = h[i].nOk
    /\ h[i].nOk <= h[i].nPut
    /\ (h[i].status = 200 /\ h[i].body = "ok") =>
         /\ h[i].sent = h[i].nOk
         /\ h[i].nOk + h[i].exhausted + h[i].abandoned
              = 1 + HasPatient(i) + h[i].offered

\* C14 witness: an ok response counting one entry of a bundle that also held an
\* entry without type or id, one PUT having been retried
DeliveredCountWitness ==
  \E i \in Requests :
    /\ h[i].status = 200 /\ h[i].body = "ok"
    /\ h[i].offered = 1 /\ records + h[i].offered < MaxRecords
    /\ h[i].nPut > h[i].nOk
    /\ h[i].sent = 2 + HasPatient(i)

\* C15 Mark-before-fetch: in the step that issues the first GET of an event its id
\* enters seen and saveSeen starts a write of a snapshot holding it; whenever a GET
\* or PUT has been issued for an event, its id is in seen.
MarkBeforeFetch ==
  [][ \A i \in Requests :
        /\ (h'[i].gets # <<>> \/ h'[i].nPut > 0) =>
             (Has(seen', h'[i].uuid) /\ saves' >= 1)
        /\ (h[i].gets = <<>> /\ h'[i].gets # <<>>) =>
             /\ saves' = saves + 1
             /\ \E w \in writes' : Has(Parse(w.snap).ids, h'[i].uuid) ]_vars

\* C15 witness: the Encounter GET is outstanding, the id is in seen and in the
\* snapshot of a write that has not completed
MarkBeforeFetchWitness ==
  \E i \in Requests :
    /\ h[i].pc = "getRoot" /\ Has(seen, h[i].uuid)
    /\ \E w \in writes : Has(Parse(w.snap).ids, h[i].uuid)

\* C16 Storage failure is swallowed: the step in which an fs.writeFile fails changes
\* neither seen nor any handler; the id of an admitted event stays in seen, and the
\* response of an event is 500 exactly when its own root or subject path failed,
\* whether or not a write has failed.
StorageFailureSwallowed ==
  [][ /\ (writeFailed' /\ ~writeFailed) => (seen' = seen /\ h' = h)
      /\ \A i \in Requests :
           Admitted(i)' =>
             /\ Has(seen', h'[i].uuid)
             /\ h'[i].pc = "done" =>
                  h'[i].status = (IF FatalFailure(i)' THEN 500 ELSE 200) ]_vars

\* C16 witness: the write of seen.json failed and the event ended ok after delivering
StorageFailureSwallowedWitness ==
  /\ writeFailed
  /\ \E i \in Requests :
       /\ h[i].status = 200 /\ h[i].body = "ok" /\ h[i].nOk >= 2
       /\ Has(seen, h[i].uuid)

\* C17 Sequential single flow: an event has at most one GET or PUT outstanding, and
\* exactly one while it awaits; the related-resource GETs follow resourceQueries in
\* list order; the entry being delivered is the first deliverable one after those
\* already visited, the entries after it are still pending.
SequentialFlow ==
  \A i \in Requests :
    /\ Outstanding(i) = (IF h[i].pc \in {"getRoot", "getSubject", "getBundle", "put"}
                         THEN 1 ELSE 0)
    /\ h[i].typeIdx > 0 =>
         /\ Len(h[i].gets) = h[i].typeIdx + 1 + HasPatient(i)
         /\ \A k \in 1..h[i].typeIdx :
              h[i].gets[1 + HasPatient(i) + k].res = resourceQueries[k]
    /\ (h[i].pc \in {"put", "sleep"} /\ h[i].stage = "related") =>
         LET pos == Len(h[i].bundle) - Len(h[i].entries)
         IN /\ Len(h[i].entries) < Len(h[i].bundle)
            /\ h[i].bundle[pos] = "full"
            /\ h[i].entries = SubSeq(h[i].bundle, pos + 1, Len(h[i].bundle))
            /\ Tried(i) + h[i].abandoned + CountFull(h[i].entries)
                 = 1 + HasPatient(i) + h[i].offered

\* C17 witness: the second entry of a bundle is being delivered, for a type that is
\* not the first of the list
SequentialFlowWitness ==
  \E i \in Requests :
    /\ h[i].pc = "put" /\ h[i].stage = "related" /\ h[i].typeIdx >= 2
    /\ h[i].bundle = <<"full", "full">> /\ h[i].entries = <<>>
    /\ h[i].nOk = 2 + HasPatient(i)

\* C18 Event termination: when every GET and PUT settles and every timer fires, an
\* admitted event ends with exactly one response, even if the FHIR node fails every
\* PUT; no response is sent twice and no putToNode invokes axios.put more than
\* MAX_RETRIES times.
EventTerminates ==
  /\ \A i \in Requests :
       Admitted(i) ~> (h[i].pc = "done" /\ h[i].responses = 1)
  /\ [](\A i \in Requests :
          /\ h[i].responses = (IF h[i].pc = "done" THEN 1 ELSE 0)
          /\ h[i].xCalls <= MAX_RETRIES)

\* C18 witness: an event ended ok although a GET failed and a delivery was given up
EventTerminatesWitness ==
  \E i \in Requests :
    /\ h[i].pc = "done" /\ h[i].responses = 1
    /\ flaky /\ h[i].status = 200 /\ h[i].exhausted >= 1 /\ h[i].failed # {}

\* C19 Fail-open load: when seen.json is missing or cannot be parsed, seen holds
\* nothing but the ids admitted since the start, and the first POST of any id is
\* admitted.
FailOpenLoad ==
  stored \in {MissingFile, EmptyFile, CorruptFile} =>
    /\ Range(seen) = {h[i].uuid : i \in {j \in Requests : Admitted(j)}}
    /\ \A i \in Requests :
         (/\ Arrived(i) /\ h[i].uuid \in Ids
          /\ \A j \in Requests : j < i => h[j].uuid # h[i].uuid) => Admitted(i)

\* C19 witness: seen.json was unparseable and the event was admitted and delivered
FailOpenLoadWitness ==
  /\ stored = CorruptFile
  /\ \E i \in Requests : Admitted(i) /\ h[i].nOk >= 1

\* C20 Validation before admission: a POST whose body has no uuid, or an empty one,
\* is answered 400 in the step it arrives, without any GET or PUT, and that step
\* changes neither seen nor seen.json nor the pending writes.
ValidationFirst ==
  [][ \A i \in Requests :
        (h'[i].status # 0 /\ h'[i].uuid \in {Undefined, ""}) =>
          /\ h'[i].status = 400 /\ h'[i].pc = "done"
          /\ h'[i].gets = <<>> /\ h'[i].nPut = 0
          /\ h[i].pc = "idle" =>
               (seen' = seen /\ writes' = writes /\ saves' = saves /\ file' = file) ]_vars

\* C20 witness: a POST with an empty uuid was answered 400 and nothing was saved
ValidationFirstWitness ==
  \E i \in Requests :
    /\ h[i].uuid = "" /\ h[i].status = 400
    /\ seen = LoadSeen(stored) /\ saves = 0

\* C21 Independence of concurrent events: with two events of different ids in
\* flight, the sent of an ok response is the number of successful PUTs of that
\* event alone and an event is answered 500 exactly when its own root or subject
\* path failed; a step of one handler leaves the other handler as it was; seen
\* changes only in the step that admits an event, by that event's id.
IndependentEvents ==
  /\ [](\A i, j \in Requests :
          (Admitted(i) /\ Admitted(j) /\ h[i].uuid # h[j].uuid) =>
            /\ h[i].results = h[i].nOk
            /\ h[i].pc = "done" =>
                 /\ h[i].status = (IF FatalFailure(i) THEN 500 ELSE 200)
                 /\ h[i].status = 200 =>
                      (h[i].body = "ok" /\ h[i].sent = h[i].nOk)
                 /\ h[i].status = 500 => (h[i].body = "error" /\ h[i].sent = 0))
  /\ [][ /\ \A i, j \in Requests : (i # j /\ h'[i] # h[i]) => h'[j] = h[j]
         /\ seen' # seen =>
              \E i \in Requests :
                /\ h[i].pc = "idle" /\ Admitted(i)'
                /\ seen' = Append(seen, h'[i].uuid) ]_vars

\* C21 witness: one event was answered 500 while the other, of another id, has
\* delivered its Encounter and awaits the PUT of its Patient
IndependentEventsWitness ==
  \E i, j \in Requests :
    /\ h[i].uuid # h[j].uuid
    /\ h[i].status = 500 /\ FatalFailure(i) /\ h[i].gets # <<>>
    /\ h[j].pc = "put" /\ h[j].stage = "subject" /\ h[j].nOk = 1
    /\ Has(seen, h[i].uuid) /\ Has(seen, h[j].uuid)

====
